---- MODULE Spec2Model ----
(***************************************************************************)
(* Pitch scape loading of musicflower/loader.py: the triangular scape       *)
(* builder (audio_scape), the cached file loader (load_file) and the        *)
(* corpus loader (load_corpus).                                             *)
(*                                                                          *)
(* Numbers: chroma energies are modelled as naturals, and an array entry    *)
(* (one row of a (k, 12) array) as a record [num, den]: the 12 numerators   *)
(* over one common denominator, in lowest terms.  den = 1 is a raw vector,  *)
(* den = 0 is the all-NaN row numpy produces for 0/0.                       *)
(* Sequences are 1-based; the code's 0-based index i is i + 1 here.         *)
(***************************************************************************)
EXTENDS Integers, Sequences, FiniteSets, TLC

VARIABLES
    \* one run of audio_scape followed by load_file's return
    apc,          \* position in the run
    aN,           \* n_time_intervals
    aRaw,         \* raw_chroma: the frames get_chroma returns
    aNormalise,   \* the normalise argument
    aTopDown,     \* audio_scape's top_down argument
    aChroma,      \* chroma: the n base vectors
    aBuilt,       \* flattened as concatenated at line 58
    aFlat,        \* flattened / pdc as it is now
    aRetTopDown,  \* load_file's top_down argument
    \* the file system and the calls of load_file
    files,        \* path -> [exists, frames]: the source files
    cache,        \* <<path, n>> -> [present, pdc, kwargs]: the cache files
    cacheSource,  \* <<path, n>> -> the frames the source file held when the
                  \* cache file was last written, <<>> for no cache file
    lastCall,     \* the latest load_file call: its arguments and what it did
    second,       \* the outcome of the same call made again right after it
    \* one comparison of load_corpus in its two modes on the same arguments
    cPc,          \* "idle", or "open" while the two calls are made
    cIn,          \* the arguments: file_paths, sort_func, load_file's kwargs
    seqOut,       \* what load_corpus(parallel=False) returned or raised
    parOut,       \* what load_corpus(parallel=True) returned or raised
    parRunning,   \* the pool of the parallel call is open
    parTodo,      \* positions of file_paths whose task has not completed
    parList       \* scape_list of the parallel call

scapeVars == <<apc, aN, aRaw, aNormalise, aTopDown, aChroma, aBuilt, aFlat, aRetTopDown>>

fileVars == <<files, cache, cacheSource, lastCall, second>>

corpusVars == <<cPc, cIn, seqOut, parOut, parRunning, parTodo, parList>>

vars == <<scapeVars, fileVars, corpusVars>>

\* ------------------------------------------------------------------ bounds
MaxN == 3
MaxBins == 3
MaxFiles == 2
MaxRes == 2

\* the 12 pitch classes: np.zeros((n_time_intervals, 12))
Dim == 12

\* ----------------------------------------------------------------- vectors
\* the sequence f with every element evaluated once
AsSeq(f) == f \o <<>>

VZero == AsSeq([j \in 1..Dim |-> 0])

OneHot(p) == AsSeq([j \in 1..Dim |-> IF j = p THEN 1 ELSE 0])

VAdd(a, b) == AsSeq([j \in 1..Dim |-> a[j] + b[j]])

RECURSIVE SumUpTo(_, _)
SumUpTo(v, j) == IF j = 0 THEN 0 ELSE v[j] + SumUpTo(v, j - 1)

\* v.sum() over the 12 pitch classes
VSum(v) == SumUpTo(v, Dim)

RECURSIVE Gcd(_, _)
Gcd(a, b) == IF b = 0 THEN a ELSE Gcd(b, a % b)

RECURSIVE GcdUpTo(_, _)
GcdUpTo(v, j) == IF j = 0 THEN 0 ELSE Gcd(v[j], GcdUpTo(v, j - 1))

\* an array row holding the raw vector v
Raw(v) == [num |-> v, den |-> 1]

\* the row numpy yields for 0/0 in every component
NaNRow == [num |-> VZero, den |-> 0]

\* the row e.num / (e.den * s) in lowest terms
DivRow(e, s) ==
    IF s = 0 \/ e.den = 0
    THEN NaNRow
    ELSE LET d == e.den * s
             g == Gcd(d, GcdUpTo(e.num, Dim))
         IN  [num |-> AsSeq([j \in 1..Dim |-> e.num[j] \div g]), den |-> d \div g]

\* ------------------------------------------------------- sequence helpers
RECURSIVE Concat(_)
Concat(ss) == IF ss = <<>> THEN <<>> ELSE Head(ss) \o Concat(Tail(ss))

Reversed(s) == AsSeq([i \in 1..Len(s) |-> s[Len(s) + 1 - i]])

\* numpy fancy indexing a[idx, ...] with a 0-based index array idx
Take(a, idx) == AsSeq([j \in 1..Len(idx) |-> a[idx[j] + 1]])

\* ------------------------------------------------------------- audio_scape
\* int(round(p / q)): Python 3 rounds halves to the even neighbour
RoundDiv(p, q) ==
    LET f == p \div q
        r == p % q
    IN  IF 2 * r < q THEN f
        ELSE IF 2 * r > q THEN f + 1
        ELSE IF f % 2 = 0 THEN f ELSE f + 1

RECURSIVE SumFrames(_, _, _)
\* raw_chroma[:, start:end].sum(axis=1), frames start .. end-1 (0-based)
SumFrames(raw, start, end) ==
    IF start >= end THEN VZero
    ELSE VAdd(raw[start + 1], SumFrames(raw, start + 1, end))

\* the n base vectors: sums over n equal time windows of the frames
WindowChroma(raw, n) ==
    LET nBins == Len(raw)
    IN  AsSeq([w \in 1..n |->
            SumFrames(raw, RoundDiv((w - 1) * nBins, n), RoundDiv(w * nBins, n))])

\* a plausible slip: each row from the adjacent pairs of the previous row
NextLevelAdjacent(current, chroma, idx) ==
    AsSeq([i \in 1..(Len(current) - 1) |-> VAdd(current[i], current[i + 1])])

\* next_level = current_level[:-1] + chroma[idx + 1:]
NextLevel(current, chroma, idx) ==
    AsSeq([i \in 1..(Len(current) - 1) |-> VAdd(current[i], chroma[idx + 1 + i])])

RECURSIVE Levels(_, _, _, _)
\* the list scape after the loop iterations idx .. n-1, starting from acc
Levels(chroma, current, idx, acc) ==
    IF idx >= Len(chroma) THEN acc
    ELSE LET next == NextLevel(current, chroma, idx)
         IN  Levels(chroma, next, idx + 1, Append(acc, next))

\* a plausible slip: the levels concatenated as built, finest row first
BuildScapeNotReversed(chroma) ==
    LET flat == Concat(Levels(chroma, chroma, 0, <<chroma>>))
    IN  AsSeq([j \in 1..Len(flat) |-> Raw(flat[j])])

\* np.concatenate(list(reversed(scape))): coarsest row first
BuildScape(chroma) ==
    LET flat == Concat(Reversed(Levels(chroma, chroma, 0, <<chroma>>)))
    IN  AsSeq([j \in 1..Len(flat) |-> Raw(flat[j])])

\* ------------------------------------------------------------------- TMap
Size1dFromN(n) == (n * (n + 1)) \div 2

\* TMap.n_from_size1d: the n with n(n+1)/2 = k
NFromSize1d(k) == CHOOSE n \in 0..k : Size1dFromN(n) = k

\* 0-based position of the interval [start, end) in top-down order
TopDownIndex(n, start, end) ==
    LET len == end - start
    IN  Size1dFromN(n - len) + start

\* 0-based position of the interval [start, end) in start-end order
StartEndIndex(n, start, end) ==
    (start * n - Size1dFromN(start - 1)) + (end - start - 1)

RECURSIVE StartEndIntervals(_, _, _)
\* the intervals in start-end order: by start, then by end
StartEndIntervals(n, start, end) ==
    IF start >= n THEN <<>>
    ELSE IF end > n THEN StartEndIntervals(n, start + 1, start + 2)
    ELSE <<(<<start, end>>)>> \o StartEndIntervals(n, start, end + 1)

RECURSIVE TopDownIntervals(_, _, _)
\* the intervals in top-down order: by length from n down to 1, then by start
TopDownIntervals(n, len, start) ==
    IF len < 1 THEN <<>>
    ELSE IF start + len > n THEN TopDownIntervals(n, len - 1, 0)
    ELSE <<(<<start, start + len>>)>> \o TopDownIntervals(n, len, start + 1)

\* index array taking a top-down array to start-end order
ReindexStartEndFromTopDown(n) ==
    LET ivs == StartEndIntervals(n, 0, 1)
    IN  AsSeq([j \in 1..Len(ivs) |-> TopDownIndex(n, ivs[j][1], ivs[j][2])])

\* index array taking a start-end array to top-down order
ReindexTopDownFromStartEnd(n) ==
    LET ivs == TopDownIntervals(n, n, 0)
    IN  AsSeq([j \in 1..Len(ivs) |-> StartEndIndex(n, ivs[j][1], ivs[j][2])])

\* if not top_down: flattened = flattened[start_end_from_top_down(n), ...]
AudioReorder(flattened, top_down) ==
    IF ~top_down
    THEN Take(flattened, ReindexStartEndFromTopDown(NFromSize1d(Len(flattened))))
    ELSE flattened

\* flattened /= flattened.sum(axis=1, keepdims=True); normalise is not read
NormaliseRows(flattened, normalise) ==
    AsSeq([j \in 1..Len(flattened) |-> DivRow(flattened[j], VSum(flattened[j].num))])

\* audio_scape(n_time_intervals, file_path, normalise, top_down) on the frames
\* get_chroma returns for the file
AudioScape(n, raw, normalise, top_down) ==
    NormaliseRows(AudioReorder(BuildScape(WindowChroma(raw, n)), top_down), normalise)

\* a plausible slip: the audio_scape permutation applied again
ReturnOrderWrongWay(pdc, top_down) ==
    IF top_down
    THEN Take(pdc, ReindexStartEndFromTopDown(NFromSize1d(Len(pdc))))
    ELSE pdc

\* load_file's return: pdc[top_down_from_start_end(n), ...] if top_down
ReturnOrder(pdc, top_down) ==
    IF top_down
    THEN Take(pdc, ReindexTopDownFromStartEnd(NFromSize1d(Len(pdc))))
    ELSE pdc

\* --------------------------------------------------------------- load_file
Paths == {"a.wav", "b.mxl", "c.ogg"}

\* file_path = None
NonePath == "None"

\* the file extension file_path.endswith tests
Ext == [p \in Paths |-> IF p = "a.wav" THEN ".wav" ELSE IF p = "b.mxl" THEN ".mxl" ELSE ".ogg"]

\* audio_ext = (".wav", ".mp3", ".ogg")
AudioExt == {".wav", ".mp3", ".ogg"}

\* a keyword mapping: one field per key, "unset" for a key the mapping lacks
Kw(normalise, prior_counts) == [normalise |-> normalise, prior_counts |-> prior_counts]

\* kwargs = {**dict(normalise=True), **kwargs}
WithDefaults(kwargs) ==
    IF kwargs.normalise = "unset" THEN [kwargs EXCEPT !.normalise = "True"] ELSE kwargs

\* get_cache_file_path(file_path, n): file_path + "_n<n>.pickle", one name per
\* pair (file_path, n)
GetCacheFilePath(path, n) == <<path, n>>

NoEntry == [present |-> FALSE, pdc |-> <<>>, kwargs |-> Kw("unset", "unset")]

\* pitchscapes.reader.sample_scape: the PCDs of all intervals in start-end
\* order, prior_counts added to every pitch class, normalised on request
ScoreScape(n, frames, kwargs) ==
    LET base == WindowChroma(frames, n)
        ivs == StartEndIntervals(n, 0, 1)
        prior == IF kwargs.prior_counts = "1" THEN 1 ELSE 0
        counts(j) ==
            LET sum == SumFrames(base, ivs[j][1], ivs[j][2])
            IN  AsSeq([c \in 1..Dim |-> sum[c] + prior])
        row(v) == IF kwargs.normalise = "True" THEN DivRow(Raw(v), VSum(v)) ELSE Raw(v)
    IN  AsSeq([j \in 1..Len(ivs) |-> row(counts(j))])

\* audio or (audio is None and file_path.endswith(audio_ext))
IsAudio(path, audio) ==
    audio = "True" \/ (audio = "None" /\ Ext[path] \in AudioExt)

\* lines 123-130: the scape from scratch; audio_scape takes no keyword but
\* normalise (and top_down, which load_file never forwards)
Compute(fs, a, kw) ==
    IF IsAudio(a.path, a.audio)
    THEN IF kw.prior_counts # "unset"
         THEN [error |-> "TypeError", pdc |-> <<>>, extractor |-> "audio"]
         ELSE [error |-> "",
               pdc |-> AudioScape(a.n, fs[a.path].frames, kw.normalise = "True", FALSE),
               extractor |-> "audio"]
    ELSE [error |-> "", pdc |-> ScoreScape(a.n, fs[a.path].frames, kw), extractor |-> "score"]

Outcome(error, result, read, written, extractor, newCache) ==
    [error |-> error, result |-> result, cache_read |-> read,
     cache_written |-> written, extractor |-> extractor, cache |-> newCache]

\* a plausible slip: the stored parameters are not compared
CachedKwargsDifferNever(cached_kwargs, kwargs) == FALSE

\* not cached_kwargs == kwargs
CachedKwargsDiffer(cached_kwargs, kwargs) == cached_kwargs # kwargs

\* use_cache and cache_file_exists and not recompute_cache
ReadsCache(use_cache, cache_file_exists, recompute_cache) ==
    use_cache /\ cache_file_exists /\ ~recompute_cache

\* a plausible slip: the cache file is written whether or not caching is on
WritesCacheAlways(use_cache) == TRUE

\* if use_cache: (line 131)
WritesCache(use_cache) == use_cache

\* a plausible slip: the parameters are stored as passed, without the default
StoredPairAsPassed(pdc, kw, kwargs) == [present |-> TRUE, pdc |-> pdc, kwargs |-> kwargs]

\* pickle.dump((pdc, kwargs), cache_file) and what pickle.load gives back: the
\* array as computed and the parameters with the default filled in
StoredPair(pdc, kw, kwargs) == [present |-> TRUE, pdc |-> pdc, kwargs |-> kw]

\* a plausible slip: the file check left out
ValidateNoFileCheck(fs, path, n) ==
    IF n < 1 THEN "InvalidResolution"
    ELSE IF path = NonePath THEN "PathIsNone"
    ELSE ""

\* the argument checks, in the code's order; "" when all pass.  Every file
\* that exists is a readable regular file, so the checks of lines 100-103
\* pass whenever the check of line 98 does
Validate(fs, path, n) ==
    IF n < 1 THEN "InvalidResolution"
    ELSE IF path = NonePath THEN "PathIsNone"
    ELSE IF ~fs[path].exists THEN "FileNotFound"
    ELSE ""

\* load_file(file_path, n, use_cache, recompute_cache, audio, audio_ext,
\* top_down, **kwargs) on the files fs and the cache files ch: what it
\* returns or raises, what it touched, and the cache files afterwards
LoadFile(fs, ch, a) ==
    LET kw == WithDefaults(a.kwargs)
        invalid == Validate(fs, a.path, a.n)
    IN  IF invalid # ""
        THEN Outcome(invalid, <<>>, FALSE, FALSE, "none", ch)
        ELSE
          LET name == GetCacheFilePath(a.path, a.n)
              exists == a.use_cache /\ ch[name].present
          IN  IF ReadsCache(a.use_cache, exists, a.recompute_cache)
              THEN IF CachedKwargsDiffer(ch[name].kwargs, kw)
                   THEN Outcome("CacheParameterMismatch", <<>>, TRUE, FALSE, "none", ch)
                   ELSE Outcome("", ReturnOrder(ch[name].pdc, a.top_down),
                                TRUE, FALSE, "none", ch)
              ELSE
                LET c == Compute(fs, a, kw)
                IN  IF c.error # ""
                    THEN Outcome(c.error, <<>>, FALSE, FALSE, c.extractor, ch)
                    ELSE IF WritesCache(a.use_cache)
                    THEN Outcome("", ReturnOrder(c.pdc, a.top_down), FALSE, TRUE, c.extractor,
                                 [ch EXCEPT ![name] = StoredPair(c.pdc, kw, a.kwargs)])
                    ELSE Outcome("", ReturnOrder(c.pdc, a.top_down),
                                 FALSE, FALSE, c.extractor, ch)

Args(path, n, use_cache, recompute_cache, audio, top_down, kwargs) ==
    [path |-> path, n |-> n, use_cache |-> use_cache,
     recompute_cache |-> recompute_cache, audio |-> audio, top_down |-> top_down,
     kwargs |-> kwargs]

NoArgs == Args(NonePath, 0, FALSE, FALSE, "None", FALSE, Kw("unset", "unset"))

\* ------------------------------------------------------------- load_corpus
\* the sort_func arguments tried: the default (the path itself), one key for
\* all paths, and the file extension; keys are ranks in Python's string order
SortFuncs == {"identity", "constant", "extension"}

SortKey(sort_func, path) ==
    IF sort_func = "identity"
    THEN (IF path = "a.wav" THEN 1 ELSE IF path = "b.mxl" THEN 2 ELSE 3)
    ELSE IF sort_func = "constant" THEN 0
    ELSE (IF path = "b.mxl" THEN 1 ELSE IF path = "c.ogg" THEN 2 ELSE 3)

RECURSIVE InsertByKey(_, _, _)
\* x put behind every element of the sorted list whose key is not greater
InsertByKey(x, sorted, sort_func) ==
    IF sorted = <<>> THEN <<x>>
    ELSE IF SortKey(sort_func, Head(sorted)[1]) <= SortKey(sort_func, x[1])
    THEN <<Head(sorted)>> \o InsertByKey(x, Tail(sorted), sort_func)
    ELSE <<x>> \o sorted

RECURSIVE SortedFrom(_, _, _, _)
SortedFrom(list, i, acc, sort_func) ==
    IF i > Len(list) THEN acc
    ELSE SortedFrom(list, i + 1, InsertByKey(list[i], acc, sort_func), sort_func)

\* sorted(scape_list, key=lambda x: sort_func(x[0])): Python's sort is stable
Sorted(scape_list, sort_func) == SortedFrom(scape_list, 1, <<>>, sort_func)

CorpusOut(error, tensor, paths, loads) ==
    [done |-> TRUE, error |-> error, tensor |-> tensor, paths |-> paths, loads |-> loads]

NoOut == [done |-> FALSE, error |-> "", tensor |-> <<>>, paths |-> <<>>, loads |-> <<>>]

\* a plausible slip: the path list sorted, the slices stacked as collected
AssemblePathsOnlySorted(scape_list, sort_func, loads) ==
    IF scape_list = <<>>
    THEN CorpusOut("EmptyCorpus", <<>>, <<>>, loads)
    ELSE LET sorted == Sorted(scape_list, sort_func)
         IN  CorpusOut("",
                       [i \in 1..Len(scape_list) |-> scape_list[i][2]],
                       [i \in 1..Len(sorted) |-> sorted[i][1]],
                       loads)

\* lines 175-179: sort, np.concatenate (which raises on an empty list), paths
Assemble(scape_list, sort_func, loads) ==
    IF scape_list = <<>>
    THEN CorpusOut("EmptyCorpus", <<>>, <<>>, loads)
    ELSE LET sorted == Sorted(scape_list, sort_func)
         IN  CorpusOut("",
                       [i \in 1..Len(sorted) |-> sorted[i][2]],
                       [i \in 1..Len(sorted) |-> sorted[i][1]],
                       loads)

\* a plausible slip: a failed load is swallowed and the loop goes on
PropagatesNever(error) == FALSE

\* load_file's exception leaves load_corpus: nothing catches it
Propagates(error) == error # ""

RECURSIVE SeqLoop(_, _, _, _, _, _, _)
\* lines 170-173 from position i on: the list, the loads made, the cache files
SeqLoop(fs, paths, lp, i, ch, scape_list, loads) ==
    IF i > Len(paths)
    THEN [error |-> "", scape_list |-> scape_list, loads |-> loads, cache |-> ch]
    ELSE LET o == LoadFile(fs, ch, [lp EXCEPT !.path = paths[i]])
             made == Append(loads, [path |-> paths[i], error |-> o.error])
         IN  IF Propagates(o.error)
             THEN [error |-> o.error, scape_list |-> scape_list, loads |-> made,
                   cache |-> o.cache]
             ELSE SeqLoop(fs, paths, lp, i + 1, o.cache,
                          Append(scape_list, <<paths[i], o.result>>), made)

\* pool.istarmap yields the results as the workers complete them: any task
\* still out may be the next one in
Completes(todo) == todo

CorpusUnused ==
    /\ cPc = "idle"
    /\ cIn = [paths |-> <<>>, sort_func |-> "identity", lp |-> NoArgs]
    /\ seqOut = NoOut
    /\ parOut = NoOut
    /\ parRunning = FALSE
    /\ parTodo = {}
    /\ parList = <<>>

\* ------------------------------------------------------ the load_file calls
FileContents ==
    { <<OneHot(1), VAdd(OneHot(1), VAdd(OneHot(3), OneHot(3)))>>,
      <<OneHot(5)>> }

KwargsSet ==
    {Kw("unset", "unset"), Kw("True", "unset"), Kw("False", "unset"), Kw("unset", "1")}

NoCall ==
    [valid |-> FALSE, args |-> NoArgs, error |-> "", result |-> <<>>,
     cache_read |-> FALSE, cache_written |-> FALSE, extractor |-> "none"]

Record(a, o) ==
    [valid |-> TRUE, args |-> a, error |-> o.error, result |-> o.result,
     cache_read |-> o.cache_read, cache_written |-> o.cache_written,
     extractor |-> o.extractor]

CacheNames == Paths \X (1..MaxRes)

NoFile == [exists |-> FALSE, frames |-> <<>>]

FilesInit(existing) ==
    /\ files \in [Paths -> {NoFile} \cup {[exists |-> TRUE, frames |-> c] : c \in FileContents}]
    /\ \A p \in Paths : files[p].exists <=> p \in existing
    /\ cache = [name \in CacheNames |-> NoEntry]
    /\ cacheSource = [name \in CacheNames |-> <<>>]
    /\ lastCall = NoCall
    /\ second = NoCall

\* the source of the cache files after a load_file call with arguments a and
\* outcome o: the call that writes a cache file computed it from the file as
\* it is
SourceAfterCall(src, fs, a, o) ==
    IF o.cache_written
    THEN [src EXCEPT ![GetCacheFilePath(a.path, a.n)] = fs[a.path].frames]
    ELSE src

\* the same after several calls, none with recompute_cache, that took the
\* cache files from ch to ch2: a call writes only a cache file that was not there
SourceAfterCalls(src, fs, ch, ch2) ==
    [name \in CacheNames |-> IF ch2[name] # ch[name] THEN fs[name[1]].frames ELSE src[name]]

\* a caller calls load_file
Call ==
    /\ ~lastCall.valid
    /\ \E path \in {"a.wav", "b.mxl", NonePath}, n \in 0..MaxRes,
          use_cache \in BOOLEAN, recompute_cache \in BOOLEAN,
          audio \in {"None", "False"}, top_down \in BOOLEAN,
          kwargs \in KwargsSet :
          LET a == Args(path, n, use_cache, recompute_cache, audio, top_down, kwargs)
              o == LoadFile(files, cache, a)
          IN  /\ lastCall' = Record(a, o)
              /\ cache' = o.cache
              /\ cacheSource' = SourceAfterCall(cacheSource, files, a, o)
    /\ UNCHANGED <<files, second, scapeVars, corpusVars>>

\* the caller makes the same call again, right after a call that returned
CallAgain ==
    /\ lastCall.valid /\ lastCall.error = "" /\ lastCall.args.use_cache
    /\ ~second.valid
    /\ LET o == LoadFile(files, cache, lastCall.args)
       IN  /\ second' = Record(lastCall.args, o)
           /\ cache' = o.cache
           /\ cacheSource' = SourceAfterCall(cacheSource, files, lastCall.args, o)
    /\ UNCHANGED <<files, lastCall, scapeVars, corpusVars>>

\* the caller is done with the result
Forget ==
    /\ lastCall.valid
    /\ lastCall' = NoCall
    /\ second' = NoCall
    /\ UNCHANGED <<files, cache, cacheSource, scapeVars, corpusVars>>

\* the source file is rewritten between calls
ChangeFile ==
    /\ ~lastCall.valid
    /\ \E p \in Paths, c \in FileContents :
          /\ files[p].exists
          /\ files[p].frames # c
          /\ files' = [files EXCEPT ![p].frames = c]
    /\ UNCHANGED <<cache, cacheSource, lastCall, second, scapeVars, corpusVars>>

ScapeIdle ==
    /\ apc = "start"
    /\ aChroma = <<>>
    /\ aBuilt = <<>>
    /\ aFlat = <<>>
    /\ aRetTopDown = FALSE

ScapeUnused ==
    /\ aN = 1
    /\ aRaw = <<VZero>>
    /\ aNormalise = TRUE
    /\ aTopDown = FALSE
    /\ ScapeIdle

Init ==
    /\ FilesInit({"a.wav"})
    /\ ScapeUnused
    /\ CorpusUnused

Next == Call \/ CallAgain \/ Forget \/ ChangeFile

Spec == Init /\ [][Next]_vars

\* ---------------------------------------------------- the scape builder run
\* chroma frames a file may hold
FrameSet == {VZero, OneHot(1), VAdd(OneHot(1), VAdd(OneHot(3), OneHot(3)))}

RECURSIVE SeqsUpTo(_, _)
\* the sequences over S of length 1 .. m
SeqsUpTo(S, m) ==
    IF m = 0 THEN {}
    ELSE SeqsUpTo(S, m - 1) \cup [1..m -> S]

FilesUnused ==
    /\ files = [p \in Paths |-> NoFile]
    /\ cache = [name \in CacheNames |-> NoEntry]
    /\ cacheSource = [name \in CacheNames |-> <<>>]
    /\ lastCall = NoCall
    /\ second = NoCall

ScapeInit ==
    /\ FilesUnused
    /\ CorpusUnused
    /\ aN \in 1..MaxN
    /\ aRaw \in SeqsUpTo(FrameSet, MaxBins)
    /\ aNormalise \in BOOLEAN
    /\ aTopDown \in BOOLEAN
    /\ ScapeIdle

\* lines 42-49: the base vectors
GetChroma ==
    /\ apc = "start"
    /\ aChroma' = WindowChroma(aRaw, aN)
    /\ apc' = "chroma"
    /\ UNCHANGED <<aN, aRaw, aNormalise, aTopDown, aBuilt, aFlat, aRetTopDown, fileVars, corpusVars>>

\* lines 50-58: the levels, reversed and concatenated
Build ==
    /\ apc = "chroma"
    /\ aBuilt' = BuildScape(aChroma)
    /\ aFlat' = BuildScape(aChroma)
    /\ apc' = "built"
    /\ UNCHANGED <<aN, aRaw, aNormalise, aTopDown, aChroma, aRetTopDown, fileVars, corpusVars>>

\* lines 59-61
Reorder ==
    /\ apc = "built"
    /\ aFlat' = AudioReorder(aFlat, aTopDown)
    /\ apc' = "ordered"
    /\ UNCHANGED <<aN, aRaw, aNormalise, aTopDown, aChroma, aBuilt, aRetTopDown, fileVars, corpusVars>>

\* lines 62-64
Normalise ==
    /\ apc = "ordered"
    /\ aFlat' = NormaliseRows(aFlat, aNormalise)
    /\ apc' = "normalised"
    /\ UNCHANGED <<aN, aRaw, aNormalise, aTopDown, aChroma, aBuilt, aRetTopDown, fileVars, corpusVars>>

\* load_file lines 135-138 on the array audio_scape returned
ReturnStep ==
    /\ apc = "normalised"
    /\ \E td \in BOOLEAN :
          /\ aRetTopDown' = td
          /\ aFlat' = ReturnOrder(aFlat, td)
    /\ apc' = "returned"
    /\ UNCHANGED <<aN, aRaw, aNormalise, aTopDown, aChroma, aBuilt, fileVars, corpusVars>>

ScapeNext == GetChroma \/ Build \/ Reorder \/ Normalise \/ ReturnStep

SpecScape == ScapeInit /\ [][ScapeNext]_vars

\* ------------------------------------------------------- the corpus calls
\* load_file's arguments shared by the files of a corpus
LoaderParams ==
    {Args(NonePath, MaxRes, use_cache, FALSE, "None", TRUE, kwargs) :
        use_cache \in BOOLEAN, kwargs \in {Kw("unset", "unset"), Kw("unset", "1")}}

PathLists == {<<>>} \cup SeqsUpTo(Paths, MaxFiles)

CorpusInit ==
    /\ FilesInit({"a.wav", "b.mxl"})
    /\ ScapeUnused
    /\ CorpusUnused

\* a caller fixes the arguments it will pass to load_corpus in both modes
Begin ==
    /\ cPc = "idle"
    /\ \E paths \in PathLists, sort_func \in SortFuncs, lp \in LoaderParams :
          cIn' = [paths |-> paths, sort_func |-> sort_func, lp |-> lp]
    /\ cPc' = "open"
    /\ UNCHANGED <<seqOut, parOut, parRunning, parTodo, parList, fileVars, scapeVars>>

\* load_corpus(file_paths, parallel=False, sort_func, **kwargs), lines 169-179
LoadCorpusSequential ==
    /\ cPc = "open" /\ ~seqOut.done /\ ~parRunning
    /\ LET r == SeqLoop(files, cIn.paths, cIn.lp, 1, cache, <<>>, <<>>)
       IN  /\ cache' = r.cache
           /\ cacheSource' = SourceAfterCalls(cacheSource, files, cache, r.cache)
           /\ seqOut' = IF r.error # ""
                        THEN CorpusOut(r.error, <<>>, <<>>, r.loads)
                        ELSE Assemble(r.scape_list, cIn.sort_func, r.loads)
    /\ UNCHANGED <<cPc, cIn, parOut, parRunning, parTodo, parList,
                   files, lastCall, second, scapeVars>>

\* load_corpus(file_paths, parallel=True, ...): lines 164-166, the tasks of
\* product(file_paths, [kwargs]) go to the pool
ParSubmit ==
    /\ cPc = "open" /\ ~parOut.done /\ ~parRunning
    /\ parRunning' = TRUE
    /\ parTodo' = 1..Len(cIn.paths)
    /\ parList' = <<>>
    /\ parOut' = NoOut
    /\ UNCHANGED <<cPc, cIn, seqOut, fileVars, scapeVars>>

\* a worker completes _parallel_load_file_wrapper for position i and istarmap
\* yields its result: lines 146 and 166-168; an exception of the task is
\* raised from the iteration and the with block ends the pool
WorkerDone ==
    /\ parRunning
    /\ \E i \in Completes(parTodo) :
          LET a == [cIn.lp EXCEPT !.path = cIn.paths[i]]
              o == LoadFile(files, cache, a)
              made == Append(parOut.loads, [path |-> cIn.paths[i], error |-> o.error])
          IN  /\ cache' = o.cache
              /\ cacheSource' = SourceAfterCall(cacheSource, files, a, o)
              /\ IF Propagates(o.error)
                 THEN /\ parOut' = CorpusOut(o.error, <<>>, <<>>, made)
                      /\ parRunning' = FALSE
                      /\ parTodo' = {}
                      /\ parList' = <<>>
                 ELSE /\ parOut' = [parOut EXCEPT !.loads = made]
                      /\ parList' = Append(parList, <<cIn.paths[i], o.result>>)
                      /\ parTodo' = parTodo \ {i}
                      /\ UNCHANGED parRunning
    /\ UNCHANGED <<cPc, cIn, seqOut, files, lastCall, second, scapeVars>>

\* all results are in: lines 175-179
ParCollect ==
    /\ parRunning /\ parTodo = {}
    /\ parOut' = Assemble(parList, cIn.sort_func, parOut.loads)
    /\ parRunning' = FALSE
    /\ parList' = <<>>
    /\ UNCHANGED <<cPc, cIn, seqOut, parTodo, fileVars, scapeVars>>

\* both calls have ended
End ==
    /\ cPc = "open" /\ seqOut.done /\ parOut.done
    /\ cPc' = "idle"
    /\ cIn' = [paths |-> <<>>, sort_func |-> "identity", lp |-> NoArgs]
    /\ seqOut' = NoOut
    /\ parOut' = NoOut
    /\ UNCHANGED <<parRunning, parTodo, parList, fileVars, scapeVars>>

CorpusNext ==
    Begin \/ LoadCorpusSequential \/ ParSubmit \/ WorkerDone \/ ParCollect \/ End

SpecCorpus == CorpusInit /\ [][CorpusNext]_vars

\* ------------------------------------------------ claims on the scape builder
HasBuilt == apc \in {"built", "ordered", "normalised", "returned"}

RECURSIVE RangeSum(_, _, _)
\* the elementwise sum of the base vectors lo .. hi (0-based, inclusive)
RangeSum(chroma, lo, hi) ==
    IF lo > hi THEN VZero ELSE VAdd(chroma[lo + 1], RangeSum(chroma, lo + 1, hi))

\* the entry of row r (0 = finest), position i, of an array laid out from the
\* coarsest row to the finest, each row left to right
EntryAt(arr, n, r, i) == arr[((n - r - 1) * (n - r)) \div 2 + i + 1]

\* C5: the assembled array has n(n+1)/2 entries, the entry of row r at
\* position i is the elementwise sum of the base vectors i .. i+r, the single
\* coarsest entry is the sum of all n base vectors, and for n = 1 the array is
\* the single base vector.
C5_EntriesAreIntervalSums ==
    HasBuilt =>
        /\ Len(aChroma) = aN
        /\ Len(aBuilt) = (aN * (aN + 1)) \div 2
        /\ \A r \in 0..(aN - 1) : \A i \in 0..(aN - r - 1) :
              EntryAt(aBuilt, aN, r, i) = Raw(RangeSum(aChroma, i, i + r))
        /\ aBuilt[1] = Raw(RangeSum(aChroma, 0, aN - 1))
        /\ (aN = 1 => aBuilt = <<Raw(aChroma[1])>>)

C5_Witness ==
    /\ HasBuilt
    /\ aN = 3
    /\ aChroma[1] # VZero /\ aChroma[2] # VZero /\ aChroma[3] # VZero
    /\ aChroma[1] # aChroma[2]

\* C6 as stated: every entry of a row r >= 1 is the elementwise sum of its two
\* children at row r-1, positions i and i+1.
C6_EntryIsSumOfChildren ==
    HasBuilt =>
        \A r \in 1..(aN - 1) : \A i \in 0..(aN - r - 1) :
            EntryAt(aBuilt, aN, r, i).num =
                VAdd(EntryAt(aBuilt, aN, r - 1, i).num,
                     EntryAt(aBuilt, aN, r - 1, i + 1).num)

\* C6 amended: every entry of a row r >= 1 is the entry at row r-1, position i
\* plus the base vector i+r; it is the sum of its two children in row 1, and
\* in a row r >= 2 the two children sum to it plus the entry at row r-2,
\* position i+1, which both children contain.
C6_EntryIsLeftChildPlusBase ==
    HasBuilt =>
        \A r \in 1..(aN - 1) : \A i \in 0..(aN - r - 1) :
            /\ EntryAt(aBuilt, aN, r, i).num =
                  VAdd(EntryAt(aBuilt, aN, r - 1, i).num, aChroma[i + r + 1])
            /\ VAdd(EntryAt(aBuilt, aN, r - 1, i).num,
                    EntryAt(aBuilt, aN, r - 1, i + 1).num) =
                  VAdd(EntryAt(aBuilt, aN, r, i).num,
                       IF r = 1 THEN VZero ELSE EntryAt(aBuilt, aN, r - 2, i + 1).num)

C6_Witness ==
    /\ HasBuilt
    /\ aN = 3
    /\ aChroma[2] # VZero
    /\ EntryAt(aBuilt, aN, 2, 0).num #
          VAdd(EntryAt(aBuilt, aN, 1, 0).num, EntryAt(aBuilt, aN, 1, 1).num)

\* C8: reindexing from top-down to start-end order (audio_scape) and then from
\* start-end to top-down order (load_file) restores the array entry for entry,
\* so load_file with top-down ordering returns the rows from coarsest to
\* finest, each left to right; n = 1 gives the identity.
C8_ReindexRoundTrip ==
    (apc = "returned" /\ ~aTopDown /\ aRetTopDown) =>
        /\ Len(aFlat) = Len(aBuilt)
        /\ \A r \in 0..(aN - 1) : \A i \in 0..(aN - r - 1) :
              EntryAt(aFlat, aN, r, i) =
                  DivRow(Raw(RangeSum(aChroma, i, i + r)),
                         VSum(RangeSum(aChroma, i, i + r)))
        /\ LET se == ReindexStartEndFromTopDown(aN)
               td == ReindexTopDownFromStartEnd(aN)
               k == (aN * (aN + 1)) \div 2
           IN  /\ Len(se) = k /\ Len(td) = k
               /\ \A j \in 1..k : se[td[j] + 1] = j - 1
               /\ (aN = 1 => se = <<0>> /\ td = <<0>>)

C8_Witness ==
    /\ apc = "returned" /\ ~aTopDown /\ aRetTopDown
    /\ aN = 3
    /\ Cardinality({aFlat[j] : j \in 1..Len(aFlat)}) >= 4
    /\ ReindexStartEndFromTopDown(aN) # ReindexTopDownFromStartEnd(aN)

\* ---------------------------------------------------- claims on load_file
\* the parameter mapping of a call with the normalise=True default filled in
Requested(kwargs) ==
    Kw(IF kwargs.normalise = "unset" THEN "True" ELSE kwargs.normalise, kwargs.prior_counts)

\* the load_file call a step makes, NoCall for a step that makes none
StepCall ==
    IF lastCall' # lastCall /\ lastCall'.valid THEN lastCall'
    ELSE IF second' # second /\ second'.valid THEN second'
    ELSE NoCall

\* the arguments pass the checks of lines 94-103
ValidArgs(a) == a.n >= 1 /\ a.path # NonePath /\ files[a.path].exists

\* C2: a call with caching on, recompute_cache off and a cache entry for
\* (file_path, n) stored under another parameter mapping fails with the
\* cache-parameter-mismatch error and returns no array; no call returns a
\* cached array stored under other parameters.
C2_MismatchRaises ==
    [][LET c == StepCall
       IN  c.valid =>
             /\ (/\ ValidArgs(c.args)
                 /\ c.args.use_cache /\ ~c.args.recompute_cache
                 /\ cache[<<c.args.path, c.args.n>>].present
                 /\ cache[<<c.args.path, c.args.n>>].kwargs # Requested(c.args.kwargs))
                => (c.error = "CacheParameterMismatch" /\ c.result = <<>>)
             /\ (c.cache_read /\ c.error = "")
                => cache[<<c.args.path, c.args.n>>].kwargs = Requested(c.args.kwargs)
      ]_vars

C2_Witness ==
    /\ lastCall.valid
    /\ lastCall.error = "CacheParameterMismatch"
    /\ lastCall.args.kwargs.normalise = "False"
    /\ cache[<<lastCall.args.path, lastCall.args.n>>].kwargs.normalise = "True"

\* C3: a call with caching on followed at once by the same call returns, the
\* second time, an array equal to the first; after a first call that computed
\* and stored, the second call reads the stored pair and computes nothing.
C3_CacheRoundTrip ==
    second.valid =>
        /\ second.error = ""
        /\ second.result = lastCall.result
        /\ ~lastCall.args.recompute_cache =>
              (second.cache_read /\ ~second.cache_written /\ second.extractor = "none")

C3_Witness ==
    /\ second.valid
    /\ lastCall.cache_written /\ ~lastCall.args.recompute_cache
    /\ lastCall.args.kwargs.normalise = "unset"
    /\ lastCall.args.top_down /\ lastCall.args.n = 2
    /\ second.cache_read
    /\ second.result = lastCall.result
    /\ lastCall.result[1] # lastCall.result[2]

\* C4: a cache entry is created only by a call that computes with caching on;
\* an existing entry changes only by a call with use_cache and recompute_cache,
\* for that file and resolution; a call with use_cache and without
\* recompute_cache leaves an existing entry as it is; a call without use_cache
\* reads and writes no cache entry.
C4_CacheFrame ==
    [][LET c == StepCall
       IN  /\ \A name \in CacheNames :
                 cache'[name] # cache[name] =>
                     /\ c.valid /\ c.error = ""
                     /\ c.args.use_cache
                     /\ name = <<c.args.path, c.args.n>>
                     /\ c.cache_written /\ c.extractor # "none"
                     /\ cache[name].present => c.args.recompute_cache
                     /\ cache'[name].present
           /\ c.valid =>
                 /\ ~c.args.use_cache =>
                       (~c.cache_read /\ ~c.cache_written /\ cache' = cache)
                 /\ (/\ c.args.use_cache /\ ~c.args.recompute_cache /\ ValidArgs(c.args)
                     /\ cache[<<c.args.path, c.args.n>>].present)
                    => (cache' = cache /\ c.cache_read)
                 /\ c.cache_written =>
                       cache'[<<c.args.path, c.args.n>>].present
      ]_vars

\* a call read an entry that a computation from the file as it is now would
\* not produce: the file changed and the entry stayed
C4_Witness ==
    /\ lastCall.valid /\ lastCall.error = ""
    /\ lastCall.cache_read /\ ~lastCall.args.recompute_cache
    /\ cache[<<lastCall.args.path, lastCall.args.n>>].pdc #
          Compute(files, lastCall.args, Requested(lastCall.args.kwargs)).pdc

\* C7 as stated: the scape returned for an audio file is divided row by row by
\* the row's sum when normalise is left out or true, and is the raw aggregated
\* energy when normalise is false.
C7_NormalisedExactlyWhenRequested ==
    (lastCall.valid /\ lastCall.error = "" /\ lastCall.extractor = "audio") =>
        LET a == lastCall.args
            raw == AudioReorder(BuildScape(WindowChroma(files[a.path].frames, a.n)), FALSE)
            divided == [j \in 1..Len(raw) |-> DivRow(raw[j], VSum(raw[j].num))]
        IN  lastCall.result =
                ReturnOrder(IF a.kwargs.normalise = "False" THEN raw ELSE divided, a.top_down)

\* C9: a call with n < 1 fails with the invalid-resolution error, a call with
\* n >= 1 and a path that names no file fails with the file-not-found error,
\* and a call that fails a check reads and writes no cache file and invokes no
\* extractor, whatever use_cache and recompute_cache are.
C9_ValidationFirst ==
    [][LET c == StepCall
       IN  c.valid =>
             /\ c.args.n < 1 => c.error = "InvalidResolution"
             /\ (c.args.n >= 1 /\ c.args.path # NonePath /\ ~files[c.args.path].exists)
                => c.error = "FileNotFound"
             /\ ~ValidArgs(c.args) =>
                   /\ c.error \in {"InvalidResolution", "PathIsNone", "FileNotFound"}
                   /\ c.result = <<>>
                   /\ ~c.cache_read /\ ~c.cache_written /\ c.extractor = "none"
                   /\ cache' = cache
      ]_vars

C9_Witness ==
    /\ lastCall.valid
    /\ lastCall.error = "FileNotFound"
    /\ lastCall.args.use_cache /\ lastCall.args.recompute_cache
    /\ ~lastCall.cache_read /\ ~lastCall.cache_written
    /\ \E name \in CacheNames : cache[name].present

\* -------------------------------------------------- claims on load_corpus
BothReturned ==
    /\ seqOut.done /\ seqOut.error = ""
    /\ parOut.done /\ parOut.error = ""

\* C1 as stated: for the same file list, sort_func and loader parameters the
\* parallel call returns the tensor and the path list of the sequential call,
\* in whatever order the workers complete.
C1_ParallelEqualsSequential ==
    BothReturned => (parOut.tensor = seqOut.tensor /\ parOut.paths = seqOut.paths)

\* C10: in both modes, when the load of a file fails, load_corpus fails with
\* that error and returns no tensor and no path list; a call that returns has
\* loaded every file of the list and returns one slice per file.
C10_FailureAborts ==
    \A out \in {seqOut, parOut} :
        out.done =>
            /\ \A j \in 1..Len(out.loads) :
                  out.loads[j].error # "" =>
                      /\ out.error = out.loads[j].error
                      /\ out.tensor = <<>> /\ out.paths = <<>>
                      /\ j = Len(out.loads)
            /\ out.error = "" =>
                  /\ Len(out.loads) = Len(cIn.paths)
                  /\ Len(out.tensor) = Len(cIn.paths)
                  /\ Len(out.paths) = Len(cIn.paths)
                  /\ \A j \in 1..Len(out.loads) : out.loads[j].error = ""
            /\ out.error \notin {"", "EmptyCorpus"} =>
                  /\ out.loads # <<>>
                  /\ out.loads[Len(out.loads)].error = out.error

C10_Witness ==
    /\ seqOut.done /\ parOut.done
    /\ Len(cIn.paths) = 2
    /\ seqOut.error = "FileNotFound" /\ Len(seqOut.loads) = 2
    /\ parOut.error = "FileNotFound" /\ Len(parOut.loads) = 1

\* how often the path p occurs in the list
Occurrences(list, p) == Cardinality({i \in 1..Len(list) : list[i] = p})

\* C11: a load_corpus call that returns, in either mode, returns a path list
\* with the paths of the input list, each as often as there, in non-decreasing
\* order of the sort key, and a tensor with one slice per input path whose
\* i-th slice is the scape load_file produces for the i-th returned path.
C11_SortedAndPaired ==
    \A out \in {seqOut, parOut} :
        (out.done /\ out.error = "") =>
            /\ Len(cIn.paths) >= 1
            /\ Len(out.paths) = Len(cIn.paths)
            /\ Len(out.tensor) = Len(cIn.paths)
            /\ \A p \in Paths : Occurrences(out.paths, p) = Occurrences(cIn.paths, p)
            /\ \A i \in 1..Len(out.paths) : \A j \in i..Len(out.paths) :
                  SortKey(cIn.sort_func, out.paths[i]) <= SortKey(cIn.sort_func, out.paths[j])
            /\ \A i \in 1..Len(out.paths) :
                  LET o == LoadFile(files, cache, [cIn.lp EXCEPT !.path = out.paths[i]])
                  IN  o.error = "" /\ out.tensor[i] = o.result

\* both calls returned for two files given against the sort order, whose
\* scapes differ
C11_Witness ==
    /\ BothReturned
    /\ cIn.paths = <<"b.mxl", "a.wav">>
    /\ cIn.sort_func = "identity"
    /\ seqOut.paths = <<"a.wav", "b.mxl">>
    /\ parOut.paths = <<"a.wav", "b.mxl">>
    /\ seqOut.tensor[1] # seqOut.tensor[2]

\* C12 as stated: when load_file returns an array read from a cache entry and
\* the source file is as it was when the entry was written, the array is the
\* one a computation from scratch with the call's own arguments (n, the
\* classification by audio and the extension, top_down, the parameter
\* mapping) returns.
C12_CachedEqualsFromScratch ==
    (/\ lastCall.valid /\ lastCall.error = "" /\ lastCall.cache_read
     /\ cacheSource[GetCacheFilePath(lastCall.args.path, lastCall.args.n)] =
            files[lastCall.args.path].frames)
    => LET a == lastCall.args
           c == Compute(files, a, WithDefaults(a.kwargs))
       IN  /\ c.error = ""
           /\ lastCall.result = ReturnOrder(c.pdc, a.top_down)

====
